---------------------------- MODULE Spec2Model ----------------------------
(***************************************************************************)
(* Switch box firmware (switch-box-V1.5.py): a rotary encoder and two      *)
(* buttons raise pin interrupts whose handlers set pending flags; the main *)
(* loop drains the flags, debounces, and writes framed events to a UART    *)
(* that is re-initialised after a fault.                                   *)
(*                                                                         *)
(* One clock, now, counts microseconds; ticks_ms and ticks_us are read     *)
(* from it.  Interrupt handlers are atomic actions that may run between    *)
(* any two steps of the main program; the main program is cut where an     *)
(* interrupt can be told apart from one that comes a statement later.      *)
(***************************************************************************)
EXTENDS Integers, Sequences, FiniteSets, TLC

(* ------------------------------ bounds -------------------------------- *)
MaxEnv == 3              \* environment events (edges, bytes, faults, delays) in a run
MaxIter == 2             \* iterations of the main loop in a run
TickMid == 50000         \* environment delay: a button debounce window
MaxRx == 1               \* inbound bytes the host may have in flight
MaxEnvShort == 2         \* environment events in a short run
MaxEnvRate == 1004       \* environment events in a rate-limiter run
RateTick == 1000000      \* the idle time before the storm in a rate-limiter run

(* ------------------------- program constants -------------------------- *)
debounce_us == 1500
max_rate == 1000
debounce_ms == 50
RATE_WINDOW_MS == 1000
CONFIRM_MS == 5
SETTLE_MS == 10
REINIT_MS == 50
CLEANUP_MS == 5000
HEARTBEAT_MS == 10000
LOOP_SLEEP_MS == 5

(* MicroPython tick counters wrap at 2^30; ticks_diff is the signed        *)
(* difference modulo that period.                                          *)
TICKS_PERIOD == 2^30
TICKS_HALF == TICKS_PERIOD \div 2

VARIABLES
    now,                \* microseconds since boot
    pin_a, pin_b, pin_modifier, pin_override, pin_pump_stop,
    interrupt_lock, encoder_pending, override_pending, pump_pending,
    encoder_state,      \* last_a, last_time, interrupt_count, last_rate_check
    button_state,       \* override_last_time, pump_last_time
    stats,              \* steps, overrides, pump_stops, blocked
    uart,               \* "ok", "txfault" (writes raise), "dead" (every call raises)
    rx,                 \* inbound bytes buffered by the UART
    pc,                 \* position of the main program
    rst_ctx,            \* who called system_reset: "none", "cmd", "fault"
    current_time, last_cleanup, last_status,
    enc_now, enc_msg,   \* process_encoder's locals now and msg
    tx,                 \* what the last main-program step did on the transport
    iter,               \* loop iterations begun
    budget,             \* environment events left
    hist                \* history: edges seen, for stating the claims

pins == <<pin_a, pin_b, pin_modifier, pin_override, pin_pump_stop>>
flags == <<encoder_pending, override_pending, pump_pending>>
mainlocals == <<pc, rst_ctx, current_time, last_cleanup, last_status, enc_now, enc_msg,
               tx, iter>>
vars == <<now, pins, interrupt_lock, flags, encoder_state, button_state, stats,
          uart, rx, mainlocals, budget, hist>>

(* ------------------------------- time --------------------------------- *)
ticks_ms == (now \div 1000) % TICKS_PERIOD
ticks_us == now % TICKS_PERIOD
ticks_diff(a, b) == ((a - b + TICKS_HALF) % TICKS_PERIOD) - TICKS_HALF

NoTx == [msg |-> "", ok |-> FALSE, health |-> "none"]
Commands == {"r", "s", "undecodable"}
Terminated == {"stopped", "ended", "crashed"}

(* --------------------------- initial state ---------------------------- *)
NoEdge == 0 - 1
InitHist ==
    [rises |-> 0, spaced |-> TRUE, enc_edge |-> NoEdge, b_edge |-> 0,
     enc_cand |-> NoEdge, enc_acc |-> NoEdge, enc_short |-> FALSE,
     ov_edge |-> NoEdge, ov_cand |-> NoEdge, ov_acc |-> NoEdge, ov_short |-> FALSE,
     ov_stamp0 |-> 0, ps_stamp0 |-> 0, win_admits |-> 0, failed_in_loop |-> FALSE,
     calm |-> TRUE, iter_ms |-> 0, beat_ms |-> 0, beats |-> 0, cmd |-> "",
     reset_cleared |-> FALSE, late_enc |-> FALSE, late_ov |-> FALSE,
     win_start |-> 0, uptime |-> 0, rx_old |-> 0, dropped_r |-> FALSE]

Boot ==
    /\ now = 0
    /\ pin_a = 0 /\ pin_b = 0
    /\ pin_modifier = 1 /\ pin_override = 1 /\ pin_pump_stop = 1
    /\ interrupt_lock = FALSE
    /\ encoder_pending = FALSE /\ override_pending = FALSE /\ pump_pending = FALSE
    /\ encoder_state = [last_a |-> pin_a, last_time |-> ticks_us,
                        interrupt_count |-> 0, last_rate_check |-> ticks_ms]
    /\ button_state = [override_last_time |-> ticks_ms, pump_last_time |-> ticks_ms]
    /\ stats = [steps |-> 0, overrides |-> 0, pump_stops |-> 0, blocked |-> 0]
    /\ uart = "ok"
    /\ rx = <<>>
    /\ pc = "loop"
    /\ rst_ctx = "none"
    /\ current_time = ticks_ms
    /\ last_cleanup = ticks_ms
    /\ last_status = ticks_ms
    /\ enc_now = 0
    /\ enc_msg = ""
    /\ tx = NoTx
    /\ iter = 0
    /\ hist = InitHist

Init == Boot /\ budget = MaxEnv

(* ------------------------- UART health management --------------------- *)
(* ensure_uart_alive: the probe write succeeds on a healthy UART; else the *)
(* UART is torn down, 50 ms pass, and it is constructed again, which       *)
(* succeeds (reinit_ok) or raises.                                         *)
ensure_uart_alive(u, reinit_ok) ==
    IF u = "ok"
    THEN [uart |-> "ok", ret |-> TRUE, delay |-> 0, health |-> "probe_ok"]
    ELSE IF reinit_ok
         THEN [uart |-> "ok", ret |-> TRUE, delay |-> REINIT_MS * 1000,
               health |-> "reinit_ok"]
         ELSE [uart |-> u, ret |-> FALSE, delay |-> REINIT_MS * 1000,
               health |-> "reinit_failed"]

(* Line 62: a UART that has been constructed again starts with an empty   *)
(* receive buffer; otherwise the buffer is as it was.                      *)
AfterHealth(h, buf) == IF h.health = "reinit_ok" THEN <<>> ELSE buf

(* A send that does not drain the receive buffer first.                    *)
safe_uart_write_no_drain(u, buf, message, reinit_ok) ==
    IF u = "ok"
    THEN [uart |-> "ok", rx |-> buf, ret |-> TRUE, wrote |-> message,
          delay |-> 0, health |-> "none"]
    ELSE LET h == ensure_uart_alive(u, reinit_ok)
         IN  [uart |-> h.uart, rx |-> AfterHealth(h, buf),
              ret |-> FALSE, wrote |-> "", delay |-> h.delay, health |-> h.health]

(* A send that reports failure without checking the transport.             *)
safe_uart_write_no_recovery(u, buf, message, reinit_ok) ==
    IF u = "ok"
    THEN [uart |-> "ok", rx |-> <<>>, ret |-> TRUE, wrote |-> message,
          delay |-> 0, health |-> "none"]
    ELSE [uart |-> u, rx |-> IF u = "txfault" THEN <<>> ELSE buf,
          ret |-> FALSE, wrote |-> "", delay |-> 0, health |-> "none"]

(* safe_uart_write: drain RX, write; any exception calls ensure_uart_alive *)
(* and returns False.  On "txfault" the drain completes before the write   *)
(* raises; on "dead" serial.any() raises first.                            *)
safe_uart_write(u, buf, message, reinit_ok) ==
    IF u = "ok"
    THEN [uart |-> "ok", rx |-> <<>>, ret |-> TRUE, wrote |-> message,
          delay |-> 0, health |-> "none"]
    ELSE LET h == ensure_uart_alive(u, reinit_ok)
         IN  [uart |-> h.uart,
              rx |-> AfterHealth(h, IF u = "txfault" THEN <<>> ELSE buf),
              ret |-> FALSE, wrote |-> "", delay |-> h.delay, health |-> h.health]

(* The transport observation a step leaves after calling safe_uart_write.  *)
TxOf(message, w) == [msg |-> message, ok |-> w.ret, health |-> w.health]

(* periodic_cleanup: gc.collect(), then drain RX; serial.any() raises on a *)
(* dead UART.                                                              *)
periodic_cleanup(u, buf) ==
    IF u = "dead" THEN [raised |-> TRUE, rx |-> buf]
                  ELSE [raised |-> FALSE, rx |-> <<>>]

(* -------------------------- interrupt handlers ------------------------ *)
(* A limiter that also stamps the debounce time.                           *)
check_rate_limit_stamping(es, t) ==
    IF ticks_diff(t, es.last_rate_check) >= RATE_WINDOW_MS
    THEN [es |-> [es EXCEPT !.interrupt_count = 0, !.last_rate_check = t,
                            !.last_time = t],
          ret |-> TRUE]
    ELSE [es |-> [es EXCEPT !.interrupt_count = @ + 1, !.last_time = t],
          ret |-> es.interrupt_count + 1 <= max_rate]

(* Lines 84-92.                                                            *)
check_rate_limit(es, t) ==
    IF ticks_diff(t, es.last_rate_check) >= RATE_WINDOW_MS
    THEN [es |-> [es EXCEPT !.interrupt_count = 0, !.last_rate_check = t],
          ret |-> TRUE]
    ELSE [es |-> [es EXCEPT !.interrupt_count = @ + 1],
          ret |-> es.interrupt_count + 1 <= max_rate]

(* encoder_isr: "not interrupt_lock and check_rate_limit()" short-circuits, *)
(* so the limiter is not consulted while the lock is held.                 *)
encoder_isr(lock, pending, es, st, t) ==
    IF lock
    THEN [pending |-> pending, es |-> es,
          st |-> [st EXCEPT !.blocked = @ + 1], admitted |-> FALSE]
    ELSE LET r == check_rate_limit(es, t)
         IN  IF r.ret
             THEN [pending |-> TRUE, es |-> r.es, st |-> st, admitted |-> TRUE]
             ELSE [pending |-> pending, es |-> r.es,
                   st |-> [st EXCEPT !.blocked = @ + 1], admitted |-> FALSE]

(* A handler that does not look at the lock.                               *)
override_isr_unlocked(lock, pending) == TRUE

override_isr(lock, pending) == IF ~lock THEN TRUE ELSE pending

(* A handler that flips its flag instead of setting it.                    *)
pump_stop_isr_toggle(lock, pending) == IF ~lock THEN ~pending ELSE pending

pump_stop_isr(lock, pending) == IF ~lock THEN TRUE ELSE pending

(* A rising edge of phase A runs encoder_isr.                              *)
EncoderRise ==
    /\ pin_a = 0
    /\ budget > 0 /\ budget' = budget - 1
    /\ LET r == encoder_isr(interrupt_lock, encoder_pending, encoder_state,
                            stats, ticks_ms)
       IN  /\ pin_a' = 1
           /\ encoder_pending' = r.pending
           /\ encoder_state' = r.es
           /\ stats' = r.st
    /\ UNCHANGED <<now, pin_b, pin_modifier, pin_override, pin_pump_stop,
                   interrupt_lock, override_pending, pump_pending, button_state,
                   uart, rx, mainlocals>>

(* A falling edge of the override button runs override_isr.                *)
OverridePress ==
    /\ pin_override = 1
    /\ budget > 0 /\ budget' = budget - 1
    /\ pin_override' = 0
    /\ override_pending' = override_isr(interrupt_lock, override_pending)
    /\ UNCHANGED <<now, pin_a, pin_b, pin_modifier, pin_pump_stop, interrupt_lock,
                   encoder_pending, pump_pending, encoder_state, button_state,
                   stats, uart, rx, mainlocals>>

(* A falling edge of the pump-stop button runs pump_stop_isr.              *)
PumpStopPress ==
    /\ pin_pump_stop = 1
    /\ budget > 0 /\ budget' = budget - 1
    /\ pin_pump_stop' = 0
    /\ pump_pending' = pump_stop_isr(interrupt_lock, pump_pending)
    /\ UNCHANGED <<now, pin_a, pin_b, pin_modifier, pin_override, interrupt_lock,
                   encoder_pending, override_pending, encoder_state, button_state,
                   stats, uart, rx, mainlocals>>

(* ----------------------------- environment ---------------------------- *)
EnvUnchanged ==
    UNCHANGED <<interrupt_lock, flags, encoder_state, button_state, stats,
                mainlocals>>

Spend == budget > 0 /\ budget' = budget - 1

PhaseAFall ==
    /\ pin_a = 1 /\ pin_a' = 0
    /\ UNCHANGED <<now, pin_b, pin_modifier, pin_override, pin_pump_stop, uart, rx>>
    /\ EnvUnchanged /\ UNCHANGED budget

PhaseBToggle ==
    /\ pin_b' = 1 - pin_b
    /\ UNCHANGED <<now, pin_a, pin_modifier, pin_override, pin_pump_stop, uart, rx>>
    /\ EnvUnchanged /\ UNCHANGED budget

ModifierToggle ==
    /\ pin_modifier' = 1 - pin_modifier
    /\ UNCHANGED <<now, pin_a, pin_b, pin_override, pin_pump_stop, uart, rx>>
    /\ EnvUnchanged /\ UNCHANGED budget

OverrideRelease ==
    /\ pin_override = 0 /\ pin_override' = 1
    /\ UNCHANGED <<now, pin_a, pin_b, pin_modifier, pin_pump_stop, uart, rx>>
    /\ EnvUnchanged /\ UNCHANGED budget

PumpStopRelease ==
    /\ pin_pump_stop = 0 /\ pin_pump_stop' = 1
    /\ UNCHANGED <<now, pin_a, pin_b, pin_modifier, pin_override, uart, rx>>
    /\ EnvUnchanged /\ UNCHANGED budget

(* Time passes while code runs or the device idles.                        *)
Advance(d) ==
    /\ Spend
    /\ now' = now + d
    /\ UNCHANGED <<pins, uart, rx>>
    /\ EnvUnchanged

Tick == Advance(TickMid)

(* The transport wedges: only writes fail, or every call fails.            *)
Fault ==
    /\ uart = "ok"
    /\ Spend
    /\ uart' \in {"txfault", "dead"}
    /\ UNCHANGED <<now, pins, rx>>
    /\ EnvUnchanged

(* The host sends one byte.                                                *)
RxByte ==
    /\ Len(rx) < MaxRx
    /\ Spend
    /\ \E c \in Commands : rx' = Append(rx, c)
    /\ UNCHANGED <<now, pins, uart>>
    /\ EnvUnchanged

(* ------------------------- processing routines ------------------------ *)
DebounceMiss(t, last, window) == ticks_diff(t, last) < window

(* An encoder message with the direction the wrong way round.              *)
EncoderMsgReversed(b, m) ==
    LET step == IF m = 0 THEN 10 ELSE 1
    IN  (IF b = 0 THEN "-" ELSE "+") \o ToString(step) \o "\n"

(* msg = f"+{step}" if b == 0 else f"-{step}", sent with "\n" appended.    *)
EncoderMsg(b, m) ==
    LET step == IF m = 0 THEN 10 ELSE 1
    IN  (IF b = 0 THEN "+" ELSE "-") \o ToString(step) \o "\n"

(* A confirmation that does not look at the pin.                           *)
AlwaysPressed(level) == TRUE

(* The 5 ms confirmation: the button counts when it still reads 0.         *)
StillPressed(level) == level = 0

(* Line 200: current_time = time.ticks_ms()                                *)
LoopTop ==
    /\ pc = "loop"
    /\ iter < MaxIter
    /\ iter' = iter + 1
    /\ UNCHANGED budget
    /\ current_time' = ticks_ms
    /\ pc' = "enc"
    /\ tx' = NoTx
    /\ UNCHANGED <<now, pins, interrupt_lock, flags, encoder_state, button_state,
                   stats, uart, rx, rst_ctx, last_cleanup, last_status, enc_now,
                   enc_msg>>

(* process_encoder up to the point where msg is built (lines 116-126, 131) *)
ProcessEncoder ==
    /\ pc = "enc"
    /\ UNCHANGED <<budget, iter>>
    /\ tx' = NoTx
    /\ IF ~encoder_pending
       THEN /\ pc' = "ovr"
            /\ UNCHANGED <<encoder_pending, encoder_state, enc_now, enc_msg>>
       ELSE /\ encoder_pending' = FALSE
            /\ IF DebounceMiss(ticks_us, encoder_state.last_time, debounce_us)
               THEN /\ pc' = "ovr"
                    /\ UNCHANGED <<encoder_state, enc_now, enc_msg>>
               ELSE IF pin_a = 1
                    THEN /\ pc' = "enc_emit"
                         /\ enc_now' = ticks_us
                         /\ enc_msg' = EncoderMsg(pin_b, pin_modifier)
                         /\ UNCHANGED encoder_state
                    ELSE /\ pc' = "ovr"
                         /\ encoder_state' = [encoder_state EXCEPT !.last_a = pin_a]
                         /\ UNCHANGED <<enc_now, enc_msg>>
    /\ UNCHANGED <<now, pins, interrupt_lock, override_pending, pump_pending,
                   button_state, stats, uart, rx, rst_ctx, current_time,
                   last_cleanup, last_status>>

(* process_encoder, lines 127-131: send, count, stamp.                     *)
ProcessEncoderEmit ==
    /\ pc = "enc_emit"
    /\ UNCHANGED <<budget, iter>>
    /\ \E reinit_ok \in BOOLEAN :
         LET w == safe_uart_write(uart, rx, enc_msg, reinit_ok)
         IN  /\ uart' = w.uart
             /\ rx' = w.rx
             /\ now' = now + w.delay
             /\ tx' = TxOf(enc_msg, w)
    /\ stats' = [stats EXCEPT !.steps = @ + 1]
    /\ encoder_state' = [encoder_state EXCEPT !.last_time = enc_now, !.last_a = 1]
    /\ enc_now' = 0
    /\ enc_msg' = ""
    /\ pc' = "ovr"
    /\ UNCHANGED <<pins, interrupt_lock, flags, button_state, rst_ctx,
                   current_time, last_cleanup, last_status>>

(* process_override, lines 135-141: drain, debounce, stamp.                *)
ProcessOverride ==
    /\ pc = "ovr"
    /\ UNCHANGED <<budget, iter>>
    /\ tx' = NoTx
    /\ IF ~override_pending
       THEN /\ pc' = "pmp"
            /\ UNCHANGED <<override_pending, button_state>>
       ELSE /\ override_pending' = FALSE
            /\ IF DebounceMiss(ticks_ms, button_state.override_last_time, debounce_ms)
               THEN /\ pc' = "pmp"
                    /\ UNCHANGED button_state
               ELSE /\ pc' = "ovr_confirm"
                    /\ button_state' =
                         [button_state EXCEPT !.override_last_time = ticks_ms]
    /\ UNCHANGED <<now, pins, interrupt_lock, encoder_pending, pump_pending,
                   encoder_state, stats, uart, rx, rst_ctx, current_time,
                   last_cleanup, last_status, enc_now, enc_msg>>

(* process_override, lines 142-146: sleep 5 ms, re-read, send "OV".        *)
ProcessOverrideConfirm ==
    /\ pc = "ovr_confirm"
    /\ UNCHANGED <<budget, iter>>
    /\ pc' = "pmp"
    /\ IF StillPressed(pin_override)
       THEN /\ \E reinit_ok \in BOOLEAN :
                 LET w == safe_uart_write(uart, rx, "OV\n", reinit_ok)
                 IN  /\ uart' = w.uart
                     /\ rx' = w.rx
                     /\ now' = now + CONFIRM_MS * 1000 + w.delay
                     /\ tx' = TxOf("OV\n", w)
            /\ stats' = [stats EXCEPT !.overrides = @ + 1]
       ELSE /\ now' = now + CONFIRM_MS * 1000
            /\ tx' = NoTx
            /\ UNCHANGED <<uart, rx, stats>>
    /\ UNCHANGED <<pins, interrupt_lock, flags, encoder_state, button_state,
                   rst_ctx, current_time, last_cleanup, last_status, enc_now,
                   enc_msg>>

(* process_pump_stop, lines 150-156.                                       *)
ProcessPumpStop ==
    /\ pc = "pmp"
    /\ UNCHANGED <<budget, iter>>
    /\ tx' = NoTx
    /\ IF ~pump_pending
       THEN /\ pc' = "maint"
            /\ UNCHANGED <<pump_pending, button_state>>
       ELSE /\ pump_pending' = FALSE
            /\ IF DebounceMiss(ticks_ms, button_state.pump_last_time, debounce_ms)
               THEN /\ pc' = "maint"
                    /\ UNCHANGED button_state
               ELSE /\ pc' = "pmp_confirm"
                    /\ button_state' =
                         [button_state EXCEPT !.pump_last_time = ticks_ms]
    /\ UNCHANGED <<now, pins, interrupt_lock, encoder_pending, override_pending,
                   encoder_state, stats, uart, rx, rst_ctx, current_time,
                   last_cleanup, last_status, enc_now, enc_msg>>

(* process_pump_stop, lines 157-161.                                       *)
ProcessPumpStopConfirm ==
    /\ pc = "pmp_confirm"
    /\ UNCHANGED <<budget, iter>>
    /\ pc' = "maint"
    /\ IF StillPressed(pin_pump_stop)
       THEN /\ \E reinit_ok \in BOOLEAN :
                 LET w == safe_uart_write(uart, rx, "PS\n", reinit_ok)
                 IN  /\ uart' = w.uart
                     /\ rx' = w.rx
                     /\ now' = now + CONFIRM_MS * 1000 + w.delay
                     /\ tx' = TxOf("PS\n", w)
            /\ stats' = [stats EXCEPT !.pump_stops = @ + 1]
       ELSE /\ now' = now + CONFIRM_MS * 1000
            /\ tx' = NoTx
            /\ UNCHANGED <<uart, rx, stats>>
    /\ UNCHANGED <<pins, interrupt_lock, flags, encoder_state, button_state,
                   rst_ctx, current_time, last_cleanup, last_status, enc_now,
                   enc_msg>>

(* ------------------------------ main loop ----------------------------- *)
HealthTx(h) == [msg |-> "", ok |-> FALSE, health |-> h.health]

(* Lines 208-211: periodic_cleanup raises out of the loop on a dead UART.  *)
Maintenance ==
    /\ pc = "maint"
    /\ UNCHANGED <<budget, iter>>
    /\ IF ticks_diff(current_time, last_cleanup) > CLEANUP_MS
       THEN LET c == periodic_cleanup(uart, rx)
            IN  IF c.raised
                THEN /\ pc' = "fault"
                     /\ tx' = NoTx
                     /\ UNCHANGED <<now, uart, rx, last_cleanup>>
                ELSE \E reinit_ok \in BOOLEAN :
                       LET h == ensure_uart_alive(uart, reinit_ok)
                       IN  /\ pc' = "hb"
                           /\ uart' = h.uart
                           /\ rx' = AfterHealth(h, c.rx)
                           /\ now' = now + h.delay
                           /\ tx' = HealthTx(h)
                           /\ last_cleanup' = current_time
       ELSE /\ pc' = "hb"
            /\ tx' = NoTx
            /\ UNCHANGED <<now, uart, rx, last_cleanup>>
    /\ UNCHANGED <<pins, interrupt_lock, flags, encoder_state, button_state,
                   stats, rst_ctx, current_time, last_status, enc_now, enc_msg>>

(* A heartbeat that is due as soon as the interval is reached.             *)
HeartbeatDueEarly(t, last) == ticks_diff(t, last) >= HEARTBEAT_MS

(* Line 214: time.ticks_diff(current_time, last_status) > 10000            *)
HeartbeatDue(t, last) == ticks_diff(t, last) > HEARTBEAT_MS

(* Lines 214-217.                                                          *)
Heartbeat ==
    /\ pc = "hb"
    /\ UNCHANGED <<budget, iter>>
    /\ pc' = "cmd"
    /\ IF HeartbeatDue(current_time, last_status)
       THEN /\ \E reinit_ok \in BOOLEAN :
                 LET w == safe_uart_write(uart, rx, "OK\n", reinit_ok)
                 IN  /\ uart' = w.uart
                     /\ rx' = w.rx
                     /\ now' = now + w.delay
                     /\ tx' = TxOf("OK\n", w)
            /\ last_status' = current_time
       ELSE /\ tx' = NoTx
            /\ UNCHANGED <<now, uart, rx, last_status>>
    /\ UNCHANGED <<pins, interrupt_lock, flags, encoder_state, button_state,
                   stats, rst_ctx, current_time, last_cleanup, enc_now, enc_msg>>

(* A dispatch that also resets on the status byte.                         *)
IsResetOrStatus(cmd) == cmd \in {"r", "s"}

(* Line 223: cmd == 'r'                                                    *)
IsReset(cmd) == cmd = "r"

(* Lines 220-226: serial.any() stands outside the try; a byte that does    *)
(* not decode raises inside it and the bare except checks the transport.   *)
Command ==
    /\ pc = "cmd"
    /\ UNCHANGED <<budget, iter>>
    /\ IF uart = "dead"
       THEN /\ pc' = "fault"
            /\ tx' = NoTx
            /\ UNCHANGED <<now, uart, rx, rst_ctx>>
       ELSE IF rx = <<>>
            THEN /\ pc' = "sleep"
                 /\ tx' = NoTx
                 /\ UNCHANGED <<now, uart, rx, rst_ctx>>
            ELSE /\ IF Head(rx) = "undecodable"
                    THEN \E reinit_ok \in BOOLEAN :
                           LET h == ensure_uart_alive(uart, reinit_ok)
                           IN  /\ pc' = "sleep"
                               /\ rx' = AfterHealth(h, Tail(rx))
                               /\ uart' = h.uart
                               /\ now' = now + h.delay
                               /\ tx' = HealthTx(h)
                               /\ UNCHANGED rst_ctx
                    ELSE /\ rx' = Tail(rx)
                         /\ IF IsReset(Head(rx))
                            THEN pc' = "rst_lock" /\ rst_ctx' = "cmd"
                            ELSE pc' = "sleep" /\ UNCHANGED rst_ctx
                         /\ tx' = NoTx
                         /\ UNCHANGED <<now, uart>>
    /\ UNCHANGED <<pins, interrupt_lock, flags, encoder_state, button_state,
                   stats, current_time, last_cleanup, last_status, enc_now, enc_msg>>

(* Line 228.                                                               *)
LoopSleep ==
    /\ pc = "sleep"
    /\ UNCHANGED <<budget, iter>>
    /\ pc' = "loop"
    /\ now' = now + LOOP_SLEEP_MS * 1000
    /\ tx' = NoTx
    /\ UNCHANGED <<pins, interrupt_lock, flags, encoder_state, button_state,
                   stats, uart, rx, rst_ctx, current_time, last_cleanup,
                   last_status, enc_now, enc_msg>>

(* ----------------------------- system_reset --------------------------- *)
(* A reset that does not take the lock.                                    *)
LockSkipped == FALSE

(* Line 172: interrupt_lock = True is system_reset's first statement.      *)
LockOnEntry == TRUE

ResetLock ==
    /\ pc = "rst_lock"
    /\ UNCHANGED <<budget, iter>>
    /\ pc' = "rst_body"
    /\ interrupt_lock' = (IF LockOnEntry THEN TRUE ELSE interrupt_lock)
    /\ tx' = NoTx
    /\ UNCHANGED <<now, pins, flags, encoder_state, button_state, stats, uart,
                   rx, rst_ctx, current_time, last_cleanup, last_status, enc_now,
                   enc_msg>>

(* Lines 173-179.  periodic_cleanup raising leaves system_reset with the   *)
(* lock held: the 'r' command's bare except catches it and checks the      *)
(* transport; in the top-level handler nothing catches it.                 *)
ResetBody ==
    /\ pc = "rst_body"
    /\ UNCHANGED <<budget, iter>>
    /\ encoder_pending' = FALSE
    /\ override_pending' = FALSE
    /\ pump_pending' = FALSE
    /\ encoder_state' = [encoder_state EXCEPT !.last_a = pin_a,
                                              !.last_time = ticks_us,
                                              !.interrupt_count = 0]
    /\ LET c == periodic_cleanup(uart, rx)
       IN  IF ~c.raised
           THEN /\ pc' = "rst_settle"
                /\ rx' = c.rx
                /\ tx' = NoTx
                /\ UNCHANGED <<now, uart, rst_ctx>>
           ELSE IF rst_ctx = "cmd"
                THEN \E reinit_ok \in BOOLEAN :
                       LET h == ensure_uart_alive(uart, reinit_ok)
                       IN  /\ pc' = "sleep"
                           /\ rst_ctx' = "none"
                           /\ uart' = h.uart
                           /\ now' = now + h.delay
                           /\ tx' = HealthTx(h)
                           /\ rx' = AfterHealth(h, rx)
                ELSE /\ pc' = "crashed"
                     /\ rst_ctx' = "none"
                     /\ tx' = NoTx
                     /\ UNCHANGED <<now, uart, rx>>
    /\ UNCHANGED <<pins, interrupt_lock, button_state, stats, current_time,
                   last_cleanup, last_status, enc_now, enc_msg>>

(* Lines 180-181: settle 10 ms, release the lock, return.  Returning to    *)
(* the top-level handler ends the program: the handler is outside the loop.*)
ResetSettle ==
    /\ pc = "rst_settle"
    /\ UNCHANGED <<budget, iter>>
    /\ now' = now + SETTLE_MS * 1000
    /\ interrupt_lock' = FALSE
    /\ pc' = (IF rst_ctx = "cmd" THEN "sleep" ELSE "ended")
    /\ rst_ctx' = "none"
    /\ tx' = NoTx
    /\ UNCHANGED <<pins, flags, encoder_state, button_state, stats, uart, rx,
                   current_time, last_cleanup, last_status, enc_now, enc_msg>>

(* Lines 232-235: the handler of an exception that left the loop.          *)
FaultHandler ==
    /\ pc = "fault"
    /\ UNCHANGED <<budget, iter>>
    /\ \E reinit_ok \in BOOLEAN :
         LET h == ensure_uart_alive(uart, reinit_ok)
         IN  /\ uart' = h.uart
             /\ rx' = AfterHealth(h, rx)
             /\ now' = now + h.delay
             /\ tx' = HealthTx(h)
    /\ pc' = "rst_lock"
    /\ rst_ctx' = "fault"
    /\ UNCHANGED <<pins, interrupt_lock, flags, encoder_state, button_state,
                   stats, current_time, last_cleanup, last_status, enc_now,
                   enc_msg>>

(* Lines 230-231: the external stop signal.  Inside the 'r' command's try  *)
(* the bare except swallows it; inside the top-level handler it ends the   *)
(* program without reaching line 231.                                      *)
KeyboardInterrupt ==
    /\ pc \notin Terminated
    /\ UNCHANGED <<budget, iter>>
    /\ enc_now' = 0
    /\ enc_msg' = ""
    /\ IF rst_ctx = "cmd"
       THEN \E reinit_ok \in BOOLEAN :
              LET h == ensure_uart_alive(uart, reinit_ok)
              IN  /\ pc' = "sleep"
                  /\ rst_ctx' = "none"
                  /\ uart' = h.uart
                  /\ now' = now + h.delay
                  /\ tx' = HealthTx(h)
                  /\ rx' = AfterHealth(h, rx)
                  /\ UNCHANGED interrupt_lock
       ELSE /\ pc' = "stopped"
            /\ rst_ctx' = "none"
            /\ interrupt_lock' = (IF pc = "fault" \/ rst_ctx = "fault"
                                  THEN interrupt_lock ELSE TRUE)
            /\ tx' = NoTx
            /\ UNCHANGED <<now, uart, rx>>
    /\ UNCHANGED <<pins, flags, encoder_state, button_state, stats,
                   current_time, last_cleanup, last_status>>

(* --------------------------- specification ---------------------------- *)
(* The whole program in its environment: edges on the three interrupt     *)
(* lines, host bytes, transport faults, delays, the stop signal.  The      *)
(* history is not kept.                                                    *)
Plain == UNCHANGED hist

Next ==
    \/ EncoderRise /\ Plain
    \/ OverridePress /\ Plain
    \/ PumpStopPress /\ Plain
    \/ PhaseAFall /\ Plain
    \/ OverrideRelease /\ Plain
    \/ PumpStopRelease /\ Plain
    \/ Tick /\ Plain
    \/ Fault /\ Plain
    \/ RxByte /\ Plain
    \/ KeyboardInterrupt /\ Plain
    \/ LoopTop /\ Plain
    \/ ProcessEncoder /\ Plain
    \/ ProcessEncoderEmit /\ Plain
    \/ ProcessOverride /\ Plain
    \/ ProcessOverrideConfirm /\ Plain
    \/ ProcessPumpStop /\ Plain
    \/ ProcessPumpStopConfirm /\ Plain
    \/ Maintenance /\ Plain
    \/ Heartbeat /\ Plain
    \/ Command /\ Plain
    \/ LoopSleep /\ Plain
    \/ ResetLock /\ Plain
    \/ ResetBody /\ Plain
    \/ ResetSettle /\ Plain
    \/ FaultHandler /\ Plain

Spec == Init /\ [][Next]_vars

(* ------------------------------ history ------------------------------- *)
(* What a step did, read off its two states.                               *)
Rise == pin_a = 0 /\ pin_a' = 1
RiseAdmitted == Rise /\ encoder_pending' /\ stats'.blocked = stats.blocked
OvPress == pin_override = 1 /\ pin_override' = 0
MainStep == pc' # pc
Sent(m) == MainStep /\ tx'.msg = m
EncoderMsgs == {"+1\n", "-1\n", "+10\n", "-10\n"}
SentEncoder == MainStep /\ tx'.msg \in EncoderMsgs
PsPress == pin_pump_stop = 1 /\ pin_pump_stop' = 0
ReadByte == pc = "cmd" /\ pc' \in {"sleep", "rst_lock"} /\ uart # "dead" /\ rx # <<>>
CleanupDue == ticks_diff(current_time, last_cleanup) > CLEANUP_MS
DrainCall ==
    /\ MainStep
    /\ \/ tx'.msg # ""
       \/ pc = "maint" /\ pc' \in {"hb", "fault"} /\ CleanupDue
       \/ pc = "rst_body" /\ pc' = "rst_settle"
       \/ pc = "rst_body" /\ pc' \in {"sleep", "crashed"} /\ uart = "dead"

(* The history kept beside the program: for each signal the time of its    *)
(* latest raw edge, of the edge a drain took up (cand), and of the edge    *)
(* whose event was last emitted (acc); whether the latest edge came less   *)
(* than the debounce window after the accepted one (short); the button     *)
(* timestamps as they were when the drain began (stamp0); the rising       *)
(* edges counted, and whether each came at least debounce_us after the     *)
(* one before with the lock clear and the limiter admitting (spaced); the  *)
(* admissions in the limiter's current window; whether ensure_uart_alive   *)
(* has returned False inside the loop; and whether the run has so far      *)
(* seen no fault, no reset and no stop (calm); the wall-clock time in ms   *)
(* at which the current iteration began (iter_ms) and at which the         *)
(* iteration that sent the last heartbeat began (beat_ms, 0 before the     *)
(* first), and the heartbeats sent (beats); the last inbound byte the      *)
(* command check read (cmd); whether system_reset has cleared a flag that  *)
(* was set (reset_cleared); whether an interrupt was admitted while its    *)
(* own routine was running, after the routine had cleared the flag, and    *)
(* has not been drained since (late_enc: during the UART write of          *)
(* process_encoder; late_ov: during the 5 ms of process_override); the     *)
(* wall-clock time in ms at which the limiter's window was opened          *)
(* (win_start), and the uptime in ms of the latest call of the limiter in  *)
(* a run that calls it on its own (uptime); how many of the bytes now      *)
(* buffered were already buffered when safe_uart_write or periodic_cleanup *)
(* was last called (rx_old: they stand at the head of the buffer), and     *)
(* whether a successful send has discarded an 'r' (dropped_r).             *)
Watch ==
    hist' =
      [rises |-> IF Rise THEN hist.rises + 1 ELSE hist.rises,
       spaced |-> IF Rise
                  THEN /\ hist.spaced
                       /\ RiseAdmitted
                       /\ now - (IF hist.enc_edge = NoEdge THEN 0 ELSE hist.enc_edge)
                            >= debounce_us
                  ELSE hist.spaced,
       enc_edge |-> IF Rise THEN now ELSE hist.enc_edge,
       b_edge |-> IF Rise THEN pin_b ELSE hist.b_edge,
       enc_cand |-> IF pc = "enc" /\ pc' = "enc_emit" THEN hist.enc_edge
                    ELSE hist.enc_cand,
       enc_acc |-> IF SentEncoder THEN hist.enc_cand ELSE hist.enc_acc,
       enc_short |-> IF Rise
                     THEN hist.enc_acc # NoEdge /\ now - hist.enc_acc < debounce_us
                     ELSE hist.enc_short,
       ov_edge |-> IF OvPress THEN now ELSE hist.ov_edge,
       ov_cand |-> IF pc = "ovr" /\ pc' = "ovr_confirm" THEN hist.ov_edge
                   ELSE hist.ov_cand,
       ov_acc |-> IF Sent("OV\n") THEN hist.ov_cand ELSE hist.ov_acc,
       ov_short |-> IF OvPress
                    THEN hist.ov_acc # NoEdge
                         /\ now - hist.ov_acc < debounce_ms * 1000
                    ELSE hist.ov_short,
       ov_stamp0 |-> IF pc = "ovr" THEN button_state.override_last_time
                     ELSE hist.ov_stamp0,
       ps_stamp0 |-> IF pc = "pmp" THEN button_state.pump_last_time
                     ELSE hist.ps_stamp0,
       win_admits |-> IF ~RiseAdmitted THEN hist.win_admits
                      ELSE IF encoder_state'.last_rate_check # encoder_state.last_rate_check
                              \/ encoder_state'.interrupt_count = 0
                           THEN 1
                           ELSE hist.win_admits + 1,
       failed_in_loop |-> \/ hist.failed_in_loop
                          \/ /\ MainStep
                             /\ tx'.health = "reinit_failed"
                             /\ pc # "fault"
                             /\ rst_ctx # "fault",
       calm |-> /\ hist.calm
                /\ uart' = "ok"
                /\ pc' \notin Terminated \cup {"fault", "rst_lock"},
       iter_ms |-> IF pc = "loop" /\ pc' = "enc" THEN now \div 1000
                   ELSE hist.iter_ms,
       beat_ms |-> IF Sent("OK\n") THEN hist.iter_ms ELSE hist.beat_ms,
       beats |-> IF Sent("OK\n") THEN hist.beats + 1 ELSE hist.beats,
       cmd |-> IF ReadByte THEN Head(rx) ELSE hist.cmd,
       reset_cleared |-> \/ hist.reset_cleared
                         \/ /\ pc = "rst_body" /\ MainStep
                            /\ (encoder_pending \/ override_pending \/ pump_pending),
       late_enc |-> IF RiseAdmitted /\ pc = "enc_emit" THEN TRUE
                    ELSE IF pc = "enc" /\ MainStep THEN FALSE
                    ELSE hist.late_enc,
       late_ov |-> IF OvPress /\ override_pending' /\ ~interrupt_lock
                      /\ pc = "ovr_confirm" THEN TRUE
                   ELSE IF pc = "ovr" /\ MainStep THEN FALSE
                   ELSE hist.late_ov,
       win_start |-> IF encoder_state'.last_rate_check # encoder_state.last_rate_check
                     THEN now \div 1000 ELSE hist.win_start,
       uptime |-> hist.uptime,
       rx_old |-> IF DrainCall THEN Len(rx')
                  ELSE IF Len(rx') < hist.rx_old THEN Len(rx')
                  ELSE IF ReadByte /\ hist.rx_old > 0 THEN hist.rx_old - 1
                  ELSE hist.rx_old,
       dropped_r |-> \/ hist.dropped_r
                     \/ /\ MainStep /\ tx'.msg # "" /\ tx'.ok
                        /\ rx # <<>> /\ Head(rx) = "r" /\ rx' = <<>>]

(* The program in the same environment and with phase B moving, the        *)
(* history kept.                                                           *)
NextWatch ==
    \/ EncoderRise /\ Watch
    \/ OverridePress /\ Watch
    \/ PumpStopPress /\ Watch
    \/ PhaseAFall /\ Watch
    \/ PhaseBToggle /\ Watch
    \/ OverrideRelease /\ Watch
    \/ PumpStopRelease /\ Watch
    \/ Tick /\ Watch
    \/ Fault /\ Watch
    \/ RxByte /\ Watch
    \/ KeyboardInterrupt /\ Watch
    \/ LoopTop /\ Watch
    \/ ProcessEncoder /\ Watch
    \/ ProcessEncoderEmit /\ Watch
    \/ ProcessOverride /\ Watch
    \/ ProcessOverrideConfirm /\ Watch
    \/ ProcessPumpStop /\ Watch
    \/ ProcessPumpStopConfirm /\ Watch
    \/ Maintenance /\ Watch
    \/ Heartbeat /\ Watch
    \/ Command /\ Watch
    \/ LoopSleep /\ Watch
    \/ ResetLock /\ Watch
    \/ ResetBody /\ Watch
    \/ ResetSettle /\ Watch
    \/ FaultHandler /\ Watch

SpecWatch == Init /\ [][NextWatch]_vars

(* The same program and environment in a short run.                       *)
InitShort == Boot /\ budget = MaxEnvShort

SpecShort == InitShort /\ [][NextWatch]_vars

(* The rate limiter under a storm of encoder edges: only the encoder line  *)
(* moves, after the device has idled for RateTick or not at all.           *)
RateDelay == hist.rises = 0 /\ now = 0 /\ Advance(RateTick)

InitRate == Boot /\ budget = MaxEnvRate

NextRate ==
    \/ EncoderRise /\ Watch
    \/ PhaseAFall /\ Watch
    \/ RateDelay /\ Watch

SpecRate == InitRate /\ [][NextRate]_vars

(* The encoder alone, with phase B and the modifier moving freely: edges   *)
(* of phase A, delays, a transport fault, and the main program.            *)
NextEnc ==
    \/ EncoderRise /\ Plain
    \/ PhaseAFall /\ Plain
    \/ PhaseBToggle /\ Plain
    \/ ModifierToggle /\ Plain
    \/ Tick /\ Plain
    \/ Fault /\ Plain
    \/ LoopTop /\ Plain
    \/ ProcessEncoder /\ Plain
    \/ ProcessEncoderEmit /\ Plain
    \/ ProcessOverride /\ Plain
    \/ ProcessPumpStop /\ Plain
    \/ Maintenance /\ Plain
    \/ Heartbeat /\ Plain
    \/ Command /\ Plain
    \/ LoopSleep /\ Plain
    \/ ResetLock /\ Plain
    \/ ResetBody /\ Plain
    \/ ResetSettle /\ Plain
    \/ FaultHandler /\ Plain

SpecEnc == Init /\ [][NextEnc]_vars

(* The host link: inbound bytes and a transport fault, with the encoder    *)
(* line moving so that a flag can be pending when a byte is read; the      *)
(* stop signal does not come.                                              *)
NextCmd ==
    \/ RxByte /\ Watch
    \/ EncoderRise /\ Watch
    \/ PhaseAFall /\ Watch
    \/ Tick /\ Watch
    \/ Fault /\ Watch
    \/ LoopTop /\ Watch
    \/ ProcessEncoder /\ Watch
    \/ ProcessEncoderEmit /\ Watch
    \/ ProcessOverride /\ Watch
    \/ ProcessPumpStop /\ Watch
    \/ Maintenance /\ Watch
    \/ Heartbeat /\ Watch
    \/ Command /\ Watch
    \/ LoopSleep /\ Watch
    \/ ResetLock /\ Watch
    \/ ResetBody /\ Watch
    \/ ResetSettle /\ Watch
    \/ FaultHandler /\ Watch

SpecCmd == Init /\ [][NextCmd]_vars

(* The idle device over tens of seconds: no edges, only long delays, a     *)
(* transport fault and the stop signal, so that the periodic work of the   *)
(* loop comes due.                                                         *)
BeatDelay ==
    \E d \in {HEARTBEAT_MS * 1000 - LOOP_SLEEP_MS * 1000,
              HEARTBEAT_MS * 1000,
              HEARTBEAT_MS * 1000 + 1000} : Advance(d)

NextBeat ==
    \/ BeatDelay /\ Watch
    \/ Fault /\ Watch
    \/ KeyboardInterrupt /\ Watch
    \/ LoopTop /\ Watch
    \/ ProcessEncoder /\ Watch
    \/ ProcessOverride /\ Watch
    \/ ProcessPumpStop /\ Watch
    \/ Maintenance /\ Watch
    \/ Heartbeat /\ Watch
    \/ Command /\ Watch
    \/ LoopSleep /\ Watch
    \/ ResetLock /\ Watch
    \/ ResetBody /\ Watch
    \/ ResetSettle /\ Watch
    \/ FaultHandler /\ Watch

SpecBeat == Init /\ [][NextBeat]_vars

(* check_rate_limit on its own, over uptimes of days, which the clock in   *)
(* microseconds cannot hold: the handler is called at an uptime given in   *)
(* ms, read through the wrapping ticks_ms counter, with the window opened  *)
(* at boot and some count left by earlier calls.                           *)
LimiterUptimes ==
    {0, RATE_WINDOW_MS - 1, RATE_WINDOW_MS, RATE_WINDOW_MS + 1,
     TICKS_HALF - 1, TICKS_HALF, TICKS_PERIOD - 1, TICKS_PERIOD + RATE_WINDOW_MS}

LimiterCounts == {0, max_rate - 1, max_rate, max_rate + 1}

InitLimiter ==
    /\ now = 0
    /\ pin_a = 0 /\ pin_b = 0
    /\ pin_modifier = 1 /\ pin_override = 1 /\ pin_pump_stop = 1
    /\ interrupt_lock = FALSE
    /\ encoder_pending = FALSE /\ override_pending = FALSE /\ pump_pending = FALSE
    /\ \E c \in LimiterCounts :
         /\ encoder_state = [last_a |-> 0, last_time |-> 0,
                             interrupt_count |-> c, last_rate_check |-> 0]
         /\ stats = [steps |-> 0, overrides |-> 0, pump_stops |-> 0,
                     blocked |-> IF c > max_rate THEN c - max_rate ELSE 0]
    /\ button_state = [override_last_time |-> 0, pump_last_time |-> 0]
    /\ uart = "ok"
    /\ rx = <<>>
    /\ pc = "loop"
    /\ rst_ctx = "none"
    /\ current_time = 0
    /\ last_cleanup = 0
    /\ last_status = 0
    /\ enc_now = 0
    /\ enc_msg = ""
    /\ tx = NoTx
    /\ iter = 0
    /\ hist = InitHist
    /\ budget = MaxEnvShort

(* encoder_isr at uptime up (a rising edge of phase A; the level is not    *)
(* kept).                                                                  *)
LimiterCall ==
    /\ Spend
    /\ \E up \in LimiterUptimes :
         /\ up >= hist.uptime
         /\ LET r == encoder_isr(interrupt_lock, encoder_pending, encoder_state,
                                 stats, up % TICKS_PERIOD)
            IN  /\ encoder_pending' = r.pending
                /\ encoder_state' = r.es
                /\ stats' = r.st
                /\ hist' = [hist EXCEPT
                              !.uptime = up,
                              !.win_start =
                                 IF r.es.last_rate_check # encoder_state.last_rate_check
                                 THEN up ELSE @]
    /\ UNCHANGED <<now, pins, interrupt_lock, override_pending, pump_pending,
                   button_state, uart, rx, mainlocals>>

(* The pending flag is taken by the main program.                          *)
LimiterDrain ==
    /\ encoder_pending /\ encoder_pending' = FALSE
    /\ UNCHANGED <<now, pins, interrupt_lock, override_pending, pump_pending,
                   encoder_state, button_state, stats, uart, rx, mainlocals,
                   budget, hist>>

NextLimiter ==
    \/ LimiterCall
    \/ LimiterDrain

SpecLimiter == InitLimiter /\ [][NextLimiter]_vars

(* ------------------------------- claims ------------------------------- *)
AllFlagsClear == ~encoder_pending /\ ~override_pending /\ ~pump_pending

(* C1: while interrupt_lock is true no pending flag goes from false to     *)
(* true: a handler that runs with the lock held leaves all three flags     *)
(* as they were.                                                           *)
C1_LockFreezesFlags ==
    [][interrupt_lock =>
         /\ (encoder_pending' => encoder_pending)
         /\ (override_pending' => override_pending)
         /\ (pump_pending' => pump_pending)]_vars

(* A phase-A edge has come while system_reset held the lock: it was       *)
(* counted as blocked and encoder_pending is still false.                  *)
C1_Witness ==
    /\ pc = "rst_settle" /\ interrupt_lock
    /\ stats.blocked > 0 /\ pin_a = 1 /\ ~encoder_pending

(* C2 as stated: the main loop never terminates unless the stop signal     *)
(* (KeyboardInterrupt) occurs; after a fault is handled it iterates again. *)
C2_LoopNeverEnds == pc \in Terminated => pc = "stopped"

(* C3: system_reset holds the lock from its first statement to its last:   *)
(* the lock is true wherever the reset is past line 172, no flag is set    *)
(* once the reset has cleared them, and when the reset returns all three   *)
(* flags and the lock are false.                                           *)
ResetReturns == pc = "rst_settle" /\ pc' \in {"sleep", "ended"} /\ tx' = NoTx

C3_ResetUnderLock ==
    /\ [](pc \in {"rst_body", "rst_settle"} => interrupt_lock)
    /\ [](pc = "rst_settle" => AllFlagsClear)
    /\ [][ResetReturns =>
            /\ ~interrupt_lock'
            /\ ~encoder_pending' /\ ~override_pending' /\ ~pump_pending'
            /\ now' >= now + SETTLE_MS * 1000]_vars

(* A reset has returned to the loop, and a phase-A edge that came while    *)
(* it held the lock was blocked.                                           *)
C3_Witness ==
    /\ pc = "sleep" /\ ~interrupt_lock /\ stats.blocked > 0
    /\ pin_a = 1 /\ AllFlagsClear

C10_Confirmation ==
    [][/\ (pc = "ovr_confirm" /\ pc' = "pmp") =>
             /\ now' >= now + CONFIRM_MS * 1000
             /\ IF pin_override = 0
                THEN tx'.msg = "OV\n" /\ stats'.overrides = stats.overrides + 1
                ELSE tx' = NoTx /\ stats' = stats
       /\ (pc = "pmp_confirm" /\ pc' = "maint") =>
             /\ now' >= now + CONFIRM_MS * 1000
             /\ IF pin_pump_stop = 0
                THEN tx'.msg = "PS\n" /\ stats'.pump_stops = stats.pump_stops + 1
                ELSE tx' = NoTx /\ stats' = stats
       /\ Sent("OV\n") => pc = "ovr_confirm"
       /\ Sent("PS\n") => pc = "pmp_confirm"
       /\ (MainStep /\ pc' = "ovr_confirm") =>
             /\ pc = "ovr" /\ override_pending /\ ~override_pending'
             /\ ticks_diff(ticks_ms, button_state.override_last_time) >= debounce_ms
       /\ (MainStep /\ pc' = "pmp_confirm") =>
             /\ pc = "pmp" /\ pump_pending /\ ~pump_pending'
             /\ ticks_diff(ticks_ms, button_state.pump_last_time) >= debounce_ms]_vars

(* The override button was still low after the 5 ms and OV went out.       *)
C10_Witness ==
    pc = "pmp" /\ tx.msg = "OV\n" /\ tx.ok /\ stats.overrides = 1

(* C4 as stated: under sustained encoder interrupts with the lock clear,   *)
(* no more than max_rate (1000) interrupts are admitted in one 1000 ms     *)
(* window of the limiter; the 1001st and later ones are rejected.          *)
C4_ThousandPerWindow == hist.win_admits <= max_rate

(* C5 as stated: when every phase-A rising edge comes at least 1500 us     *)
(* after the one before (lock clear, limiter admitting, nothing faulted),  *)
(* each edge has produced exactly one encoder event once the loop has      *)
(* drained the flag, and the event's sign is '+' iff phase B read 0 at     *)
(* the edge.                                                               *)
C5_OneEventPerEdge ==
    /\ []((hist.spaced /\ hist.calm /\ pc = "loop" /\ ~encoder_pending)
            => stats.steps = hist.rises)
    /\ [][(hist.spaced /\ hist.calm /\ pc = "enc" /\ pc' = "enc_emit")
            => (enc_msg' \in {"+1\n", "+10\n"} <=> hist.b_edge = 0)]_vars

(* C6 as stated: a raw edge that came less than the debounce window after  *)
(* the prior accepted edge of its signal produces no event and leaves the  *)
(* signal's timestamp alone, whenever the loop drains it.                  *)
C6_ShortEdgeDropped ==
    [][/\ (pc = "enc" /\ MainStep /\ encoder_pending /\ hist.enc_short)
             => pc' # "enc_emit"
       /\ (pc = "ovr" /\ MainStep /\ override_pending /\ hist.ov_short)
             => (pc' # "ovr_confirm" /\ button_state' = button_state)]_vars

(* C7 as stated: outside system_reset a signal's timestamp changes only in *)
(* a drain that emits that signal's event: a drain that emits nothing      *)
(* (debounce miss, phase A low, failed confirmation) leaves the timestamp  *)
(* as it was when the drain began, and no handler changes it.              *)
C7_StampOnlyOnEmit ==
    [][/\ (pc = "ovr_confirm" /\ pc' = "pmp" /\ tx'.msg # "OV\n")
             => button_state'.override_last_time = hist.ov_stamp0
       /\ (pc = "pmp_confirm" /\ pc' = "maint" /\ tx'.msg # "PS\n")
             => button_state'.pump_last_time = hist.ps_stamp0
       /\ (pc = "enc" /\ pc' = "ovr")
             => encoder_state'.last_time = encoder_state.last_time
       /\ ~MainStep
             => /\ encoder_state'.last_time = encoder_state.last_time
                /\ button_state' = button_state]_vars

(* C9 as stated: a failed probe followed by a successful re-initialisation *)
(* leaves a UART on which sends succeed; after a failed re-initialisation  *)
(* inside the loop the loop keeps running: it is not left for the fault    *)
(* handler and the program does not end.                                   *)
C9_LoopSurvivesReinitFailure ==
    /\ [][(MainStep /\ tx'.health = "reinit_ok") => uart' = "ok"]_vars
    /\ [](hist.failed_in_loop
            => pc \notin {"fault", "ended", "crashed"} /\ rst_ctx # "fault")

(* C11, amended: the heartbeat check of an iteration sends "OK\n" exactly  *)
(* when the iteration began more than 10000 ms after the iteration that    *)
(* sent the previous heartbeat began (or after startup); so the            *)
(* iterations that send it begin more than 10000 ms apart, and no other    *)
(* step sends it.                                                          *)
C11_HeartbeatAfterInterval ==
    [][/\ (pc = "hb" /\ pc' = "cmd")
             => (tx'.msg = "OK\n" <=> hist.iter_ms - hist.beat_ms > HEARTBEAT_MS)
       /\ Sent("OK\n") => (pc = "hb" /\ last_status' = current_time)]_vars

(* Two heartbeats have been sent.                                          *)
C11_Witness == hist.beats = 2 /\ pc = "cmd" /\ tx.msg = "OK\n"

(* C11 as stated: an iteration that starts when 10000 ms have elapsed      *)
(* since the previous heartbeat (or since startup) emits "OK\n", and it is *)
(* not emitted twice within one 10000 ms interval.                         *)
C11_OncePerTenSeconds ==
    [][(pc = "hb" /\ pc' = "cmd")
         => /\ (hist.iter_ms - hist.beat_ms >= HEARTBEAT_MS => tx'.msg = "OK\n")
            /\ (tx'.msg = "OK\n" => hist.iter_ms - hist.beat_ms >= HEARTBEAT_MS)]_vars

(* C12: every encoder event sent is one of "+1\n", "-1\n", "+10\n",         *)
(* "-10\n", fixed by the levels process_encoder reads when it accepts the  *)
(* step: magnitude 10 iff the modifier pin reads 0, sign '+' iff phase B   *)
(* reads 0; the message built is the message sent, and no other step       *)
(* sends an encoder event.                                                 *)
C12_EncoderEvent ==
    [][/\ (pc = "enc" /\ pc' = "enc_emit") =>
             enc_msg' = (IF pin_modifier = 0
                         THEN (IF pin_b = 0 THEN "+10\n" ELSE "-10\n")
                         ELSE (IF pin_b = 0 THEN "+1\n" ELSE "-1\n"))
       /\ (pc = "enc_emit" /\ MainStep) => (tx'.msg = enc_msg /\ enc_msg \in EncoderMsgs)
       /\ SentEncoder => pc = "enc_emit"]_vars

(* A step was accepted with phase B high and the modifier held: "-10\n"    *)
(* went out.                                                               *)
C12_Witness == pc = "ovr" /\ tx.msg = "-10\n" /\ tx.ok /\ stats.steps = 1

(* C13: when the command check reads a byte, 'r' calls system_reset, and   *)
(* any other byte, one that does not decode included, leaves the pending   *)
(* flags, the lock, the timestamps, the rate limiter and the counters as   *)
(* they were and sends nothing; system_reset is called from the loop for   *)
(* no other reason.                                                        *)
C13_CommandDispatch ==
    [][/\ ReadByte =>
             IF Head(rx) = "r"
             THEN pc' = "rst_lock" /\ rst_ctx' = "cmd"
             ELSE /\ pc' = "sleep" /\ rst_ctx' = rst_ctx
                  /\ tx'.msg = ""
                  /\ UNCHANGED <<interrupt_lock, flags, encoder_state,
                                 button_state, stats>>
       /\ (MainStep /\ pc' = "rst_lock" /\ rst_ctx' = "cmd")
             => (ReadByte /\ Head(rx) = "r")]_vars

(* The status byte was read while an encoder edge was pending: the loop    *)
(* went on to its sleep with the flag still set.                           *)
C13_Witness ==
    hist.cmd = "s" /\ pc = "sleep" /\ rx = <<>> /\ encoder_pending /\ ~interrupt_lock

(* C14 as stated: system_reset, run once or twice in succession with no    *)
(* interrupt in between, leaves one and the same observable state: all     *)
(* three pending flags false, the lock false, and the counters (the rate   *)
(* limiter's interrupt_count and the stats counters) zero.  (No handler    *)
(* has run under the lock: blocked is still 0 when the reset returns.)     *)
C14_ResetIdempotent ==
    [][(ResetReturns /\ stats.blocked = 0) =>
         /\ ~encoder_pending' /\ ~override_pending' /\ ~pump_pending'
         /\ ~interrupt_lock'
         /\ encoder_state'.interrupt_count = 0
         /\ stats' = [steps |-> 0, overrides |-> 0, pump_stops |-> 0,
                      blocked |-> 0]]_vars

(* C15, amended: each pending flag goes from false to true only in its     *)
(* own signal's interrupt handler, and from true to false only in its own  *)
(* processing routine or in system_reset (lines 173-175).                  *)
C15_FlagOwnership ==
    [][/\ (~encoder_pending /\ encoder_pending') => (Rise /\ ~MainStep)
       /\ (~override_pending /\ override_pending') => (OvPress /\ ~MainStep)
       /\ (~pump_pending /\ pump_pending') => (PsPress /\ ~MainStep)
       /\ (encoder_pending /\ ~encoder_pending')
             => (MainStep /\ pc \in {"enc", "rst_body"})
       /\ (override_pending /\ ~override_pending')
             => (MainStep /\ pc \in {"ovr", "rst_body"})
       /\ (pump_pending /\ ~pump_pending')
             => (MainStep /\ pc \in {"pmp", "rst_body"})]_vars

(* system_reset has cleared a flag that a handler had set.                 *)
C15_Witness == hist.reset_cleared /\ pc = "rst_settle" /\ AllFlagsClear

(* C15 as stated: a set flag is cleared only by its own processing         *)
(* routine; no other action ever clears it.                                *)
C15_ClearedOnlyByOwnRoutine ==
    [][/\ (encoder_pending /\ ~encoder_pending') => (MainStep /\ pc = "enc")
       /\ (override_pending /\ ~override_pending') => (MainStep /\ pc = "ovr")
       /\ (pump_pending /\ ~pump_pending') => (MainStep /\ pc = "pmp")]_vars

(* C16 as stated: an interrupt admitted while its routine is running,      *)
(* after the routine cleared the flag, is not lost: the flag is still true *)
(* when the routine returns, nothing but that routine clears it, and the   *)
(* loop goes on to its next iteration, where the routine drains it.        *)
C16_LateInterruptKept ==
    /\ [][/\ (hist.late_enc /\ pc = "enc_emit" /\ pc' = "ovr") => encoder_pending'
          /\ (hist.late_ov /\ pc = "ovr_confirm" /\ pc' = "pmp") => override_pending'
          /\ (hist.late_enc /\ encoder_pending /\ ~encoder_pending')
                => (MainStep /\ pc = "enc")
          /\ (hist.late_ov /\ override_pending /\ ~override_pending')
                => (MainStep /\ pc = "ovr")]_vars
    /\ []((\/ hist.late_enc /\ encoder_pending
           \/ hist.late_ov /\ override_pending)
            => pc \notin {"fault", "ended", "crashed"})

(* What a handler leaves alone whatever it does: the clock, the pins other *)
(* than its own, the lock, the button timestamps, the transport and the    *)
(* main program.                                                           *)
HandlerFrame ==
    UNCHANGED <<now, interrupt_lock, button_state, uart, rx, mainlocals>>

C18_RateLimiterAdmit ==
    [][(budget' # budget) =>
         IF hist'.uptime - hist.win_start >= RATE_WINDOW_MS
         THEN /\ encoder_state'.interrupt_count = 0
              /\ encoder_state'.last_rate_check = hist'.uptime % TICKS_PERIOD
              /\ encoder_pending' /\ stats' = stats
         ELSE /\ encoder_state'.interrupt_count = encoder_state.interrupt_count + 1
              /\ encoder_state'.last_rate_check = encoder_state.last_rate_check
              /\ IF encoder_state.interrupt_count + 1 <= max_rate
                 THEN encoder_pending' /\ stats' = stats
                 ELSE /\ encoder_pending' = encoder_pending
                      /\ stats'.blocked = stats.blocked + 1]_vars

(* C19 as stated: whenever the main loop is at the start of an iteration   *)
(* the lock is false: every run of system_reset, one whose                 *)
(* periodic_cleanup meets a faulted transport included, ends with the      *)
(* lock released.                                                          *)
C19_LockReleased == pc = "loop" => ~interrupt_lock

(* C20: a byte is dispatched by the command check only if it is still      *)
(* buffered there: whatever was buffered when safe_uart_write (an event or *)
(* the heartbeat) or periodic_cleanup was called is gone before the        *)
(* command check reads, so an 'r' that arrived before an emission never    *)
(* reaches system_reset.  The drain discards it while serial.any() works;  *)
(* when the drain itself raises, the bytes stay only for as long as the    *)
(* UART stays dead, and the command check reads nothing from a dead UART.  *)
C20_CommandLoss ==
    /\ [][/\ (DrainCall /\ uart # "dead") => rx' = <<>>
          /\ ReadByte => hist.rx_old = 0]_vars
    /\ [](hist.rx_old > 0 => uart = "dead")

(* An 'r' was buffered when an encoder event was sent: the iteration came  *)
(* to its sleep without any byte having been dispatched.                   *)
C20_Witness ==
    /\ hist.dropped_r /\ hist.cmd = "" /\ pc = "sleep" /\ stats.steps = 1
    /\ ~interrupt_lock /\ rx = <<>>
=============================================================================
